---- MODULE Spec2Model ----
(***************************************************************************)
(* A model of dinocrack: the leet codec, the leet classifier, the          *)
(* combinatorial generator (cartesian_rule.py) and the corpus analyzer     *)
(* (dinopass_generator.py).  Python strings are modelled as sequences of   *)
(* one-character strings, compared by code point as Python compares them.  *)
(***************************************************************************)
EXTENDS Integers, Sequences, FiniteSets, TLC

----------------------------------------------------------------------------
(* Characters and strings (the str methods the program uses)               *)

\* The printable ASCII characters in code-point order, from "!" to "~" (without the
\* double quote, the backslash and the backquote, which no modelled string holds).
Ascii == <<"!", "#", "$", "%", "&", "'", "(", ")", "*", "+", ",", "-", ".", "/", "0", "1", "2", "3", "4", "5", "6", "7", "8", "9", ":", ";", "<", "=", ">", "?", "@", "A", "B", "C", "D", "E", "F", "G", "H", "I", "J", "K", "L", "M", "N", "O", "P", "Q", "R", "S", "T", "U", "V", "W", "X", "Y", "Z", "[", "]", "^", "_", "a", "b", "c", "d", "e", "f", "g", "h", "i", "j", "k", "l", "m", "n", "o", "p", "q", "r", "s", "t", "u", "v", "w", "x", "y", "z", "{", "|", "}", "~">>

Lower == <<"a", "b", "c", "d", "e", "f", "g", "h", "i", "j", "k", "l", "m", "n", "o", "p", "q", "r", "s", "t", "u", "v", "w", "x", "y", "z">>

Upper == <<"A", "B", "C", "D", "E", "F", "G", "H", "I", "J", "K", "L", "M", "N", "O", "P", "Q", "R", "S", "T", "U", "V", "W", "X", "Y", "Z">>

DigitChars == <<"0", "1", "2", "3", "4", "5", "6", "7", "8", "9">>

Range(s) == {s[i] : i \in DOMAIN s}

\* ord(c), relative to "!": only the order of code points is used.
Code == [c \in Range(Ascii) |-> CHOOSE i \in DOMAIN Ascii : Ascii[i] = c]

\* str.isalpha / [a-zA-Z], str.isdigit / \d, on one character.
isalpha(c) == c \in Range(Lower) \cup Range(Upper)

isdigit(c) == c \in Range(DigitChars)

\* str.upper and str.lower on one character.
upperChar(c) == IF c \in Range(Lower) THEN Upper[CHOOSE i \in DOMAIN Lower : Lower[i] = c] ELSE c

lowerChar(c) == IF c \in Range(Upper) THEN Lower[CHOOSE i \in DOMAIN Upper : Upper[i] = c] ELSE c

lower(s) == [i \in DOMAIN s |-> lowerChar(s[i])]

\* word[0].upper() + word[1:]
upperFirst(s) == [i \in DOMAIN s |-> IF i = 1 THEN upperChar(s[i]) ELSE s[i]]

\* str.capitalize(): first character upper-cased, the rest lower-cased.
capitalize(s) == [i \in DOMAIN s |-> IF i = 1 THEN upperChar(s[i]) ELSE lowerChar(s[i])]

\* Python's < on str: the first differing code point decides, a proper prefix is smaller.
StrLess(a, b) ==
    \E i \in 1..(Len(b)) :
        /\ i <= Len(a) + 1
        /\ \A j \in 1..(i - 1) : a[j] = b[j]
        /\ \/ i = Len(a) + 1
           \/ i <= Len(a) /\ Code[a[i]] < Code[b[i]]

\* The words of S from the largest to the smallest.
RECURSIVE sorted_descending(_)
sorted_descending(S) ==
    IF S = {} THEN <<>>
    ELSE LET m == CHOOSE x \in S : \A y \in S \ {x} : StrLess(y, x)
         IN  <<m>> \o sorted_descending(S \ {m})

\* sorted(set of str)
RECURSIVE sorted(_)
sorted(S) ==
    IF S = {} THEN <<>>
    ELSE LET m == CHOOSE x \in S : \A y \in S \ {x} : StrLess(x, y)
         IN  <<m>> \o sorted(S \ {m})

\* The list concatenation of a sequence of sequences.
RECURSIVE FlattenFrom(_, _, _)
FlattenFrom(ss, i, n) == IF i > n THEN <<>> ELSE ss[i] \o FlattenFrom(ss, i + 1, n)

Flatten(ss) == FlattenFrom(ss, 1, Len(ss))

\* f"{n:02d}"
Fmt02(n) ==
    IF n < 10 THEN <<"0", DigitChars[n + 1]>>
    ELSE IF n < 100 THEN <<DigitChars[(n \div 10) + 1], DigitChars[(n % 10) + 1]>>
    ELSE <<DigitChars[(n \div 100) + 1], DigitChars[((n \div 10) % 10) + 1], DigitChars[(n % 10) + 1]>>

----------------------------------------------------------------------------
(* Leet Codec: DinoPassAnalyzer.__init__ and apply_leet_transformations     *)

\* self.leetspeak_map, each value as the list the code normalises it to.
leetspeak_map ==
    [c \in {"a", "c", "k", "e", "t", "i", "d", "s", "f", "j", "l"} |->
        CASE c = "a" -> <<"@">>
          [] c = "c" -> <<"(", "<">>
          [] c = "k" -> <<"<">>
          [] c = "e" -> <<"3">>
          [] c = "t" -> <<"+">>
          [] c = "i" -> <<"!">>
          [] c = "d" -> <<")", ">">>
          [] c = "s" -> <<"$">>
          [] c = "f" -> <<"=">>
          [] c = "j" -> <<"]">>
          [] c = "l" -> <<"[">>]

\* The reverse map with ">" read as c instead of d.
reverse_leet_map_wrong ==
    [c \in {"@", "(", "<", "3", "+", "!", ")", ">", "$", "=", "]", "2", "["} |->
        CASE c = "@" -> <<"a">>
          [] c = "(" -> <<"c">>
          [] c = "<" -> <<"c", "k">>
          [] c = "3" -> <<"e">>
          [] c = "+" -> <<"t">>
          [] c = "!" -> <<"i">>
          [] c = ")" -> <<"d">>
          [] c = ">" -> <<"c">>
          [] c = "$" -> <<"s">>
          [] c = "=" -> <<"f">>
          [] c = "]" -> <<"j">>
          [] c = "2" -> <<"z">>
          [] c = "[" -> <<"l">>]

\* self.reverse_leet_map: symbol -> the letters it may stand for.
reverse_leet_map ==
    [c \in {"@", "(", "<", "3", "+", "!", ")", ">", "$", "=", "]", "2", "["} |->
        CASE c = "@" -> <<"a">>
          [] c = "(" -> <<"c">>
          [] c = "<" -> <<"c", "k">>
          [] c = "3" -> <<"e">>
          [] c = "+" -> <<"t">>
          [] c = "!" -> <<"i">>
          [] c = ")" -> <<"d">>
          [] c = ">" -> <<"d">>
          [] c = "$" -> <<"s">>
          [] c = "=" -> <<"f">>
          [] c = "]" -> <<"j">>
          [] c = "2" -> <<"z">>
          [] c = "[" -> <<"l">>]

\* The keys of reverse_leet_map in insertion order (the order deleet_word visits them).
reverse_leet_keys == <<"@", "(", "<", "3", "+", "!", ")", ">", "$", "=", "]", "2", "[">>

\* The variant of word_lower with position i replaced by leet_char, first letter
\* upper-cased when it is alphabetic (the body of the inner loop).
OneSubstitution(word_lower, i, leet_char) ==
    LET variant == [j \in DOMAIN word_lower |-> IF j = i THEN leet_char ELSE word_lower[j]]
    IN  IF variant # <<>> /\ isalpha(variant[1]) THEN upperFirst(variant) ELSE variant

\* The variations when variant_chars is not reset between substitutions: every
\* mappable position before i keeps its (last) substitute.
leet_variations_cumulative(word) ==
    LET word_lower == lower(word)
        original   == IF isalpha(word[1]) THEN upperFirst(word) ELSE word
        carried(i) == [j \in DOMAIN word_lower |->
                         IF j < i /\ word_lower[j] \in DOMAIN leetspeak_map
                         THEN leetspeak_map[word_lower[j]][Len(leetspeak_map[word_lower[j]])]
                         ELSE word_lower[j]]
    IN  {original} \cup
        { OneSubstitution(carried(p[1]), p[1], leetspeak_map[word_lower[p[1]]][p[2]]) :
            p \in { q \in (DOMAIN word_lower) \X (1..2) :
                      /\ word_lower[q[1]] \in DOMAIN leetspeak_map
                      /\ q[2] \in DOMAIN leetspeak_map[word_lower[q[1]]] } }

\* The set `variations` that apply_leet_transformations builds.
leet_variations(word) ==
    LET word_lower == lower(word)
        original   == IF isalpha(word[1]) THEN upperFirst(word) ELSE word
    IN  {original} \cup
        { OneSubstitution(word_lower, p[1], leetspeak_map[word_lower[p[1]]][p[2]]) :
            p \in { q \in (DOMAIN word_lower) \X (1..2) :
                      /\ word_lower[q[1]] \in DOMAIN leetspeak_map
                      /\ q[2] \in DOMAIN leetspeak_map[word_lower[q[1]]] } }

\* apply_leet_transformations(word): the sorted list of the variations.
apply_leet_transformations(word) ==
    IF word = <<>> THEN <<word>> ELSE sorted(leet_variations(word))

----------------------------------------------------------------------------
(* Leet Classifier: CartesianGenerator.__init__, has_leet_substitutions,    *)
(* is_valid_leet_combination                                               *)

\* Every substitute of leetspeak_map.
AllSubstitutes == UNION {Range(leetspeak_map[c]) : c \in DOMAIN leetspeak_map}

\* self.numeric_leet_chars: the digit substitutes and the nine digits added by hand.
numeric_leet_chars ==
    {s \in AllSubstitutes : isdigit(s)} \cup {"0", "1", "2", "4", "5", "6", "7", "8", "9"}

\* self.symbol_leet_chars: the substitutes that are not digits.
symbol_leet_chars == {s \in AllSubstitutes : ~isdigit(s)}

\* re.sub(r'\d{2}$', '', text)
StripTwoDigits(text) ==
    IF Len(text) >= 2 /\ isdigit(text[Len(text)]) /\ isdigit(text[Len(text) - 1])
    THEN SubSeq(text, 1, Len(text) - 2)
    ELSE text

\* non_alpha_chars.intersection(self.symbol_leet_chars)
SymbolFound(non_alpha_chars) == non_alpha_chars \cap symbol_leet_chars

\* has_leet_substitutions(text) = (has_numeric, has_symbol, non_alpha_chars)
has_leet_substitutions(text) ==
    LET word_part          == StripTwoDigits(text)
        non_alpha_chars    == {c \in Range(word_part) : ~isalpha(c)}
        numeric_leet_found == non_alpha_chars \cap numeric_leet_chars
        symbol_leet_found  == SymbolFound(non_alpha_chars)
        other_numeric      == {c \in non_alpha_chars : isdigit(c) /\ c \notin numeric_leet_chars}
    IN  [has_numeric |-> (numeric_leet_found \cup other_numeric) # {},
         has_symbol  |-> symbol_leet_found # {},
         leet_chars  |-> non_alpha_chars]

\* The decision with the test for mixed leet forgotten.
IsValidFlags_anyLeet(has_numeric, has_symbol) == has_numeric \/ has_symbol

\* The decision of is_valid_leet_combination on the two flags.
IsValidFlags(has_numeric, has_symbol) ==
    IF ~has_numeric /\ ~has_symbol THEN FALSE
    ELSE (has_numeric /\ ~has_symbol) \/ (has_symbol /\ ~has_numeric)

is_valid_leet_combination(text) ==
    LET r == has_leet_substitutions(text)
    IN  IsValidFlags(r.has_numeric, r.has_symbol)

----------------------------------------------------------------------------
(* Deleeter and Token Splitter: deleet_word, analyze_password_structure     *)

\* cand.replace(leet, n)
Replace(cand, leet, n) == [j \in DOMAIN cand |-> IF cand[j] = leet THEN n ELSE cand[j]]

\* One round of the loop over reverse_leet_map: the new candidate set.
DeleetRound(candidates, leet) ==
    UNION { IF leet \in Range(cand)
            THEN {Replace(cand, leet, reverse_leet_map[leet][k]) :
                    k \in DOMAIN reverse_leet_map[leet]}
            ELSE {cand} : cand \in candidates }

RECURSIVE DeleetRounds(_, _)
DeleetRounds(candidates, i) ==
    IF i > Len(reverse_leet_keys) THEN candidates
    ELSE DeleetRounds(DeleetRound(candidates, reverse_leet_keys[i]), i + 1)

\* re.sub(r'[^a-z]', '', c)
StripNonLower(c) == SelectSeq(c, LAMBDA ch : ch \in Range(Lower))

\* The final candidate set of deleet_word.
DeleetCandidates(word) == {StripNonLower(c) : c \in DeleetRounds({lower(word)}, 1)}

\* The element a loop over the set S of str meets first.  The order in which a set
\* of str is iterated is fixed within one process and differs between processes
\* (hash randomisation): hash_order names the order of this process.
First(S, order) ==
    IF order = "asc" THEN CHOOSE x \in S : \A y \in S \ {x} : StrLess(x, y)
    ELSE CHOOSE x \in S : \A y \in S \ {x} : StrLess(y, x)

\* The dictionary never consulted.
apply_spellcheck_never(word) == FALSE

\* any(ch in word for ch, normals in reverse_leet_map.items() if len(normals) > 1)
apply_spellcheck(word) ==
    \E ch \in DOMAIN reverse_leet_map :
        Len(reverse_leet_map[ch]) > 1 /\ ch \in Range(word)

\* deleet_word(word), given the dictionary and the iteration order of the process.
deleet_word(word, dict, order) ==
    LET candidates       == DeleetCandidates(word)
        valid_candidates == {c \in candidates : c \in dict}
    IN  IF apply_spellcheck(word) /\ valid_candidates # {}
        THEN First(valid_candidates, order)
        ELSE IF candidates # {} THEN First(candidates, order) ELSE word

Fail == [ok |-> FALSE]

\* left, right = body[:k], body[k:]
Cut(body, k) ==
    [ok |-> TRUE, left |-> SubSeq(body, 1, k), right |-> SubSeq(body, k + 1, Len(body))]

\* Attempt 1, re.split(r'(?<!^)(?=[A-Z])', body, maxsplit=1): the cut before the
\* first uppercase letter that is not the first character, or Fail (one part).
UppercaseCut(body) ==
    LET ups == {i \in 2..Len(body) : body[i] \in Range(Upper)}
    IN  IF ups # {} THEN Cut(body, (CHOOSE i \in ups : \A j \in ups : i <= j) - 1)
        ELSE Fail

\* Attempt 2, re.match(r'^([A-Za-z]+)([^A-Za-z].+)$', body): the leading run of
\* letters, then a non-letter and at least one more character; or Fail (no match).
PatternCut(body) ==
    LET run == IF \E i \in DOMAIN body : ~isalpha(body[i])
               THEN (CHOOSE i \in DOMAIN body :
                        ~isalpha(body[i]) /\ \A j \in 1..(i - 1) : isalpha(body[j])) - 1
               ELSE Len(body)
    IN  IF run >= 1 /\ Len(body) >= run + 2 THEN Cut(body, run) ELSE Fail

\* len(body) // 2, without the floor of 2.
Midpoint_half(body) == Len(body) \div 2

\* mid = max(2, len(body) // 2)
Midpoint(body) == IF Len(body) \div 2 > 2 THEN Len(body) \div 2 ELSE 2

\* The fallback: Fail when mid >= len(body).
MidpointCut(body) ==
    IF Midpoint(body) >= Len(body) THEN Fail ELSE Cut(body, Midpoint(body))

\* The three attempts with the letter/non-letter pattern tried before the uppercase.
SplitBody_patternFirst(body) ==
    IF PatternCut(body).ok THEN PatternCut(body)
    ELSE IF UppercaseCut(body).ok THEN UppercaseCut(body)
    ELSE MidpointCut(body)

\* The (left, right) split of the body, or Fail: the three attempts in order.
SplitBody(body) ==
    IF UppercaseCut(body).ok THEN UppercaseCut(body)
    ELSE IF PatternCut(body).ok THEN PatternCut(body)
    ELSE MidpointCut(body)

\* The length below which a password, and a recovered word, is refused.
TooShortPassword(password) == Len(password) < 4

\* The length test on the recovered words with a bound of 3 instead of 2.
TooShortWord_three(left_clean, right_clean) == Len(left_clean) < 3 \/ Len(right_clean) < 3

TooShortWord(left_clean, right_clean) == Len(left_clean) < 2 \/ Len(right_clean) < 2

\* analyze_password_structure(password): Fail stands for None.
analyze_password_structure(password, dict, order) ==
    IF password = <<>> \/ TooShortPassword(password) THEN Fail
    ELSE LET suffix == SubSeq(password, Len(password) - 1, Len(password))
             body   == SubSeq(password, 1, Len(password) - 2)
             split  == SplitBody(body)
         IN  IF ~split.ok THEN Fail
             ELSE LET left_clean  == lower(deleet_word(split.left, dict, order))
                      right_clean == lower(deleet_word(split.right, dict, order))
                      digits      == IF isdigit(suffix[1]) /\ isdigit(suffix[2])
                                     THEN suffix ELSE <<>>
                  IN  IF TooShortWord(left_clean, right_clean) THEN Fail
                      ELSE [ok |-> TRUE, adjective |-> left_clean, noun |-> right_clean,
                            digits |-> digits, original |-> password,
                            clean_form |-> left_clean \o capitalize(right_clean) \o digits]

----------------------------------------------------------------------------
(* Corpus Analyzer: analyze_corpus                                          *)

\* The passwords fetched: one with the ambiguous "<", one plain, one too short,
\* one the Splitter cannot split, one whose left fragment deleets to one letter.
FetchedPasswords ==
    { <<"<", "a", "O", "x", "4", "2">>, <<"c", "a", "E", "d", "4", "2">>, <<"a", "b", "1">>,
      <<"a", "b", "4", "2">>, <<"#", "a", "O", "x", "4", "2">> }

\* What self.spell may contain of the words the inputs can deleet to.
SpellUniverse == { <<"c", "a">>, <<"k", "a">> }

\* The iteration orders a process may have (see First).
HashOrders == {"asc", "desc"}

\* analyze_password_structure on each fetched password, for each dictionary and
\* iteration order, computed once: the entries <<password, dict, order, analysis>>.
FetchedAnalysisTable ==
    { <<x[1], x[2], x[3], analyze_password_structure(x[1], x[2], x[3])>> :
        x \in FetchedPasswords \X (SUBSET SpellUniverse) \X HashOrders }

\* self.analyze_password_structure(password) for a fetched password.
FetchedAnalysis(password, dict, order) ==
    (CHOOSE t \in FetchedAnalysisTable :
        t[1] = password /\ t[2] = dict /\ t[3] = order)[4]

\* The loop body with a failed password dropped without being counted.
AnalyzeOne_uncounted(st, analysis) ==
    IF analysis.ok
    THEN [adjectives        |-> st.adjectives \cup {analysis.adjective},
          nouns             |-> st.nouns \cup {analysis.noun},
          password_patterns |-> Append(st.password_patterns, analysis),
          successful        |-> st.successful + 1,
          failed            |-> st.failed]
    ELSE st

\* The body of the loop of analyze_corpus for one password, given its analysis:
\* st holds the two sets, the log and the two counters.
AnalyzeOne(st, analysis) ==
    IF analysis.ok
    THEN [adjectives        |-> st.adjectives \cup {analysis.adjective},
          nouns             |-> st.nouns \cup {analysis.noun},
          password_patterns |-> Append(st.password_patterns, analysis),
          successful        |-> st.successful + 1,
          failed            |-> st.failed]
    ELSE [st EXCEPT !.failed = st.failed + 1]

\* The loop of analyze_corpus over passwords[i..].
RECURSIVE AnalyzeLoop(_, _, _, _, _)
AnalyzeLoop(st, passwords, i, dict, order) ==
    IF i > Len(passwords) THEN st
    ELSE AnalyzeLoop(AnalyzeOne(st, FetchedAnalysis(passwords[i], dict, order)),
                     passwords, i + 1, dict, order)

\* new_adj_count / new_noun_count counted once per analysed record.
NewCount_perRecord(before, after, successful) == successful

\* new_adj_count / new_noun_count: the growth of the set.
NewCount(before, after, successful) == Cardinality(after) - Cardinality(before)

\* analyze_corpus(passwords, append_mode) called with the sets and the log given:
\* what it leaves and what it returns.
analyze_corpus(adjs, nns, log, passwords, append_mode, dict, order) ==
    LET start == [adjectives        |-> IF append_mode THEN adjs ELSE {},
                  nouns             |-> IF append_mode THEN nns ELSE {},
                  password_patterns |-> IF append_mode THEN log ELSE <<>>,
                  successful        |-> 0,
                  failed            |-> 0]
        end   == AnalyzeLoop(start, passwords, 1, dict, order)
    IN  [adjectives        |-> end.adjectives,
         nouns             |-> end.nouns,
         password_patterns |-> end.password_patterns,
         initial_adj_count |-> Cardinality(start.adjectives),
         initial_noun_count |-> Cardinality(start.nouns),
         initial_log_len |-> Len(start.password_patterns),
         result |-> [successful     |-> end.successful,
                     failed         |-> end.failed,
                     new_adjectives |-> NewCount(start.adjectives, end.adjectives,
                                                 end.successful),
                     new_nouns      |-> NewCount(start.nouns, end.nouns, end.successful)]]

----------------------------------------------------------------------------
(* Combinatorial Generator: get_word_variations, process_candidate and the   *)
(* loops of generate_comprehensive_wordlist / generate_cartesian_with_rules  *)

\* get_word_variations(word, is_adjective): the three lists of the dict it returns.
get_word_variations(word, is_adjective) ==
    LET leet_variants == apply_leet_transformations(word)
        kept          == SelectSeq(leet_variants, LAMBDA v : v # word)
        cased         == [i \in DOMAIN kept |-> IF is_adjective THEN lower(kept[i]) ELSE kept[i]]
        flags(v)      == has_leet_substitutions(v \o <<"0", "0">>)
    IN  [base         |-> <<IF is_adjective THEN lower(word) ELSE capitalize(word)>>,
         numeric_leet |-> SelectSeq(cased, LAMBDA v : flags(v).has_numeric /\ ~flags(v).has_symbol),
         symbol_leet  |-> SelectSeq(cased, LAMBDA v : flags(v).has_symbol /\ ~flags(v).has_numeric)]

\* The words the adjective set, and the noun set, may hold.
AdjUniverse == { <<"c", "a">>, <<"k", "a">>, <<"e", "x">>, <<"e", "1">> }

NounUniverse == { <<"e", "d">>, <<"t", "e", "n">>, <<"o", "x">> }

\* adj_variations_map and noun_variations_map: get_word_variations of every word
\* Vocabulary may hold, computed once: the entries <<word, is_adjective, variations>>.
VariationsTable ==
    { <<x[1], x[2], get_word_variations(x[1], x[2])>> :
        x \in (AdjUniverse \cup NounUniverse) \X BOOLEAN }

\* adj_variations_map[word] (is_adjective) or noun_variations_map[word].
variations_map(word, is_adjective) ==
    (CHOOSE t \in VariationsTable : t[1] = word /\ t[2] = is_adjective)[3]

\* valid_combinations with its last entry forgotten.
valid_combinations_short ==
    << <<"base", "numeric_leet">>, <<"base", "symbol_leet">>, <<"numeric_leet", "base">> >>

\* The four type-combinations and a fifth that mixes the two kinds of leet.
valid_combinations_mixed ==
    << <<"base", "numeric_leet">>, <<"base", "symbol_leet">>,
       <<"numeric_leet", "base">>, <<"symbol_leet", "base">>,
       <<"symbol_leet", "numeric_leet">> >>

\* valid_combinations (generate_comprehensive_wordlist) and the order in which
\* generate_cartesian_with_rules fills valid_pairs.
valid_combinations ==
    << <<"base", "numeric_leet">>, <<"base", "symbol_leet">>,
       <<"numeric_leet", "base">>, <<"symbol_leet", "base">> >>

\* One pass of the innermost loop body, before its checks: the loop variables and
\* the candidate built from them.
Iteration(base_adj, base_noun, adj_type, noun_type, adj_var, noun_var, n) ==
    [base_adj |-> base_adj, base_noun |-> base_noun,
     adj_type |-> adj_type, noun_type |-> noun_type,
     adj_var |-> adj_var, noun_var |-> noun_var, n |-> n,
     candidate |-> adj_var \o noun_var \o Fmt02(n)]

\* The passes of the innermost loop of generate_comprehensive_wordlist, in order:
\* sorted adjectives, sorted nouns, valid_combinations, adjective variants,
\* noun variants, digits_range.  Each Flatten([i \in ... |-> ...]) is one for loop.
ComprehensiveIterations(adjs, nns, digits_range) ==
    LET sa == sorted(adjs)
        sn == sorted(nns)
    IN  Flatten([a \in DOMAIN sa |->
          Flatten([b \in DOMAIN sn |->
            LET adj_variations  == variations_map(sa[a], TRUE)
                noun_variations == variations_map(sn[b], FALSE)
            IN  Flatten([c \in DOMAIN valid_combinations |->
                  LET adj_type  == valid_combinations[c][1]
                      noun_type == valid_combinations[c][2]
                      avs       == adj_variations[adj_type]
                      nvs       == noun_variations[noun_type]
                  IN  Flatten([i \in DOMAIN avs |->
                        Flatten([j \in DOMAIN nvs |->
                          [k \in DOMAIN digits_range |->
                            Iteration(sa[a], sn[b], adj_type, noun_type, avs[i], nvs[j],
                                      digits_range[k])]])])])])])

\* valid_pairs of generate_cartesian_with_rules for one (adjective, noun): four
\* blocks appended in turn.
PairBlock(avs, nvs, adj_type, noun_type) ==
    Flatten([i \in DOMAIN avs |->
      [j \in DOMAIN nvs |-> <<avs[i], nvs[j], adj_type, noun_type>>]])

\* valid_pairs with the two blocks of noun variants filled in the other order.
valid_pairs_symbolFirst(adj_variations, noun_variations) ==
       PairBlock(adj_variations["base"], noun_variations["symbol_leet"], "base", "symbol_leet")
    \o PairBlock(adj_variations["base"], noun_variations["numeric_leet"], "base", "numeric_leet")
    \o PairBlock(adj_variations["numeric_leet"], noun_variations["base"], "numeric_leet", "base")
    \o PairBlock(adj_variations["symbol_leet"], noun_variations["base"], "symbol_leet", "base")

valid_pairs(adj_variations, noun_variations) ==
       PairBlock(adj_variations["base"], noun_variations["numeric_leet"], "base", "numeric_leet")
    \o PairBlock(adj_variations["base"], noun_variations["symbol_leet"], "base", "symbol_leet")
    \o PairBlock(adj_variations["numeric_leet"], noun_variations["base"], "numeric_leet", "base")
    \o PairBlock(adj_variations["symbol_leet"], noun_variations["base"], "symbol_leet", "base")

\* The passes of the innermost loop of generate_cartesian_with_rules, in order.
CartesianIterations(adjs, nns, digits_range) ==
    LET sa == sorted(adjs)
        sn == sorted(nns)
    IN  Flatten([a \in DOMAIN sa |->
          Flatten([b \in DOMAIN sn |->
            LET vp == valid_pairs(variations_map(sa[a], TRUE),
                                  variations_map(sn[b], FALSE))
            IN  Flatten([p \in DOMAIN vp |->
                  [k \in DOMAIN digits_range |->
                    Iteration(sa[a], sn[b], vp[p][3], vp[p][4], vp[p][1], vp[p][2],
                              digits_range[k])]])])])

\* The length test with the lower bound forgotten.
LengthRejected_maxOnly(total_len, min_length, max_length) == total_len > max_length

\* The length test of both generators: TRUE when the candidate is skipped.
LengthRejected(total_len, min_length, max_length) ==
    total_len > max_length \/ total_len < min_length

\* The guard with the noun set forgotten.
NothingLoaded_adjectivesOnly(adjs, nns) == adjs = {}

\* if not self.adjectives or not self.nouns
NothingLoaded(adjs, nns) == adjs = {} \/ nns = {}

\* The result cap tested one write late.
CapReached_late(max_results, tw) == max_results # 0 /\ tw > max_results

\* if max_results and total_written >= max_results (None and 0 are both falsy).
CapReached(max_results, tw) == max_results # 0 /\ tw >= max_results

\* process_candidate without the re-validation against the classifier.
process_candidate_unvalidated(candidate, sn, out, tw, rm, dedupe) ==
    IF dedupe /\ candidate \in sn
    THEN [seen |-> sn, out_f |-> out, total_written |-> tw, rejected_mixed |-> rm]
    ELSE [seen |-> sn \cup {candidate}, out_f |-> Append(out, candidate),
          total_written |-> tw + 1, rejected_mixed |-> rm]

\* process_candidate without the test against `seen`.
process_candidate_undeduped(candidate, sn, out, tw, rm, dedupe) ==
    IF ~is_valid_leet_combination(candidate)
    THEN [seen |-> sn, out_f |-> out, total_written |-> tw, rejected_mixed |-> rm + 1]
    ELSE [seen |-> sn \cup {candidate}, out_f |-> Append(out, candidate),
          total_written |-> tw + 1, rejected_mixed |-> rm]

\* process_candidate: the state it leaves, given the state it is called in.
process_candidate(candidate, sn, out, tw, rm, dedupe) ==
    IF ~is_valid_leet_combination(candidate)
    THEN [seen |-> sn, out_f |-> out, total_written |-> tw, rejected_mixed |-> rm + 1]
    ELSE IF dedupe /\ candidate \in sn
    THEN [seen |-> sn, out_f |-> out, total_written |-> tw, rejected_mixed |-> rm]
    ELSE [seen |-> sn \cup {candidate}, out_f |-> Append(out, candidate),
          total_written |-> tw + 1, rejected_mixed |-> rm]

----------------------------------------------------------------------------
(* State                                                                    *)

VARIABLES
    adjectives,        \* self.adjectives
    nouns,             \* self.nouns
    password_patterns, \* self.password_patterns, the analysis log
    spell,             \* the words self.spell contains (the dictionary collaborator)
    hash_order,        \* the iteration order of this process's sets of str
    corpus,            \* the passwords the service returns to this process
    files,             \* adjectives.txt and nouns.txt: whether each exists, the words in it
    sat,               \* the arguments and locals of the running fetch_until_saturation
    fetch,             \* the running threaded fetch: its workers, its queue, its locals
    cfg,               \* the arguments of the generator call
    output_file,       \* the output file on disk: "absent", "stale" (from before), "written"
    out_f,             \* the lines written to the output file
    seen,              \* the generator's local `seen`
    total_written,     \* the generator's local `total_written`
    rejected_mixed,    \* the generator's local `rejected_mixed`
    passes,            \* the passes of the innermost loop of the running call, in order
    pos,               \* the pass of the innermost loop that comes next
    pc,                \* where the running call stands
    arg,               \* the argument of the function being applied
    ret,               \* the value the last call returned
    last               \* the last analyze_corpus call: its arguments and the state before it

vars == <<adjectives, nouns, password_patterns, spell, hash_order, corpus, files, sat, fetch, cfg, output_file, out_f, seen,
          total_written, rejected_mixed, passes, pos, pc, arg, ret, last>>

analyzerVars == <<password_patterns, spell, hash_order, corpus, files, sat, fetch, last>>

generatorVars == <<cfg, output_file, out_f, seen, total_written, rejected_mixed, passes, pos>>

----------------------------------------------------------------------------
(* Bounds and the inputs drawn                                              *)

\* At most this many adjectives, and this many nouns, in Vocabulary.
MaxVocab == 2

\* digits_range, as the list of values it yields.
DigitRanges == { <<0>>, <<7, 42>>, <<99, 100>> }

\* (min_length, max_length).
LengthBounds == { <<7, 15>>, <<7, 7>>, <<0, 6>> }

\* max_results: 0 stands for None (both are falsy in `if max_results and ...`).
MaxResultsChoices == {0, 2}

Configurations ==
    [mode : {"comprehensive", "cartesian"}, digits_range : DigitRanges,
     min_length : {b[1] : b \in LengthBounds}, max_length : {b[2] : b \in LengthBounds},
     max_results : MaxResultsChoices, dedupe : BOOLEAN]

NoCall == [fn |-> "none"]

\* A vocabulary file that does not exist, and one that holds the words given.
NoFile == [exists |-> FALSE, words |-> {}]

FileOf(words) == [exists |-> TRUE, words |-> words]

\* adjectives.txt and nouns.txt both missing.
NoFiles == [adjectives |-> NoFile, nouns |-> NoFile]

----------------------------------------------------------------------------
(* The generator run                                                        *)

\* The passes of the innermost loop of the generator that cfg.mode names.
Iterations ==
    IF cfg.mode = "comprehensive"
    THEN ComprehensiveIterations(adjectives, nouns, cfg.digits_range)
    ELSE CartesianIterations(adjectives, nouns, cfg.digits_range)

GenInit ==
    /\ adjectives \in {S \in SUBSET AdjUniverse : Cardinality(S) <= MaxVocab}
    /\ nouns \in {S \in SUBSET NounUniverse : Cardinality(S) <= MaxVocab}
    /\ cfg \in {c \in Configurations : <<c.min_length, c.max_length>> \in LengthBounds}
    /\ password_patterns = <<>>
    /\ spell = {}
    /\ hash_order = "asc"
    /\ corpus = {}
    /\ files = NoFiles
    /\ sat = NoCall
    /\ fetch = NoCall
    /\ output_file \in {"absent", "stale"}
    /\ out_f = <<>>
    /\ seen = {}
    /\ total_written = 0
    /\ rejected_mixed = 0
    /\ passes = <<>>
    /\ pos = 1
    /\ pc = "idle"
    /\ arg = <<>>
    /\ ret = NoCall
    /\ last = NoCall

\* The guard on an empty Vocabulary, the initialisation of the locals and
\* open(output_file, "w"), which creates the file or truncates it.
GenerateBegin ==
    /\ pc = "idle"
    /\ IF NothingLoaded(adjectives, nouns)
       THEN /\ pc' = "returned"
            /\ ret' = [fn |-> cfg.mode, value |-> 0]
            /\ UNCHANGED <<output_file, out_f, seen, total_written, rejected_mixed,
                           passes, pos>>
       ELSE /\ pc' = "loop"
            /\ output_file' = "written"
            /\ seen' = {}
            /\ total_written' = 0
            /\ rejected_mixed' = 0
            /\ out_f' = <<>>
            /\ passes' = Iterations
            /\ pos' = 1
            /\ UNCHANGED ret
    /\ UNCHANGED <<adjectives, nouns, cfg, arg, analyzerVars>>

\* One pass of the innermost loop: the length test, process_candidate, the result cap.
GenerateStep ==
    /\ pc = "loop"
    /\ pos <= Len(passes)
    /\ \E candidate \in {passes[pos].candidate} :
       \E r \in {process_candidate(candidate, seen, out_f, total_written, rejected_mixed,
                                   cfg.dedupe)} :
           IF LengthRejected(Len(candidate), cfg.min_length, cfg.max_length)
           THEN /\ pos' = pos + 1
                /\ UNCHANGED <<out_f, seen, total_written, rejected_mixed, pc, ret>>
           ELSE /\ seen' = r.seen
                /\ out_f' = r.out_f
                /\ total_written' = r.total_written
                /\ rejected_mixed' = r.rejected_mixed
                /\ IF CapReached(cfg.max_results, r.total_written)
                   THEN /\ pc' = "returned"
                        /\ ret' = [fn |-> cfg.mode, value |-> r.total_written]
                        /\ pos' = pos
                   ELSE /\ pos' = pos + 1
                        /\ UNCHANGED <<pc, ret>>
    /\ UNCHANGED <<adjectives, nouns, cfg, output_file, passes, arg, analyzerVars>>

\* The loops are exhausted: return total_written.
GenerateEnd ==
    /\ pc = "loop"
    /\ pos > Len(passes)
    /\ pc' = "returned"
    /\ ret' = [fn |-> cfg.mode, value |-> total_written]
    /\ UNCHANGED <<adjectives, nouns, cfg, arg, analyzerVars, output_file, out_f, seen,
                   total_written, rejected_mixed, passes, pos>>

\* KeyboardInterrupt arrives while the loops run.  Neither generator tests for an
\* interrupt or catches the exception: it leaves the generator (the `with` closes
\* the file, the lines written stay) and main's `except KeyboardInterrupt` prints
\* a message; the call returns no value.
Interrupt ==
    /\ pc = "loop"
    /\ pc' = "interrupted"
    /\ ret' = [fn |-> cfg.mode, raised |-> "KeyboardInterrupt"]
    /\ UNCHANGED <<adjectives, nouns, cfg, arg, analyzerVars, output_file, out_f, seen,
                   total_written, rejected_mixed, passes, pos>>

GenNext == GenerateBegin \/ GenerateStep \/ GenerateEnd \/ Interrupt

Spec == GenInit /\ [][GenNext]_vars

----------------------------------------------------------------------------
(* Properties of the generator run                                          *)

TwoDigit(n) == <<DigitChars[(n \div 10) + 1], DigitChars[(n % 10) + 1]>>

\* The four (adjective-type, noun-type) pairs of the grammar.
FourTypePairs ==
    { <<"base", "numeric_leet">>, <<"base", "symbol_leet">>,
      <<"numeric_leet", "base">>, <<"symbol_leet", "base">> }

\* The strings the grammar allows for the Vocabulary and the configuration.
Qualifying ==
    { s \in UNION { UNION { UNION {
            { av \o nv \o TwoDigit(n) :
                <<av, nv, n>> \in Range(get_word_variations(a, TRUE)[tp[1]])
                                  \X Range(get_word_variations(b, FALSE)[tp[2]])
                                  \X Range(cfg.digits_range) }
            : tp \in FourTypePairs } : b \in nouns } : a \in adjectives } :
        /\ cfg.min_length <= Len(s)
        /\ Len(s) <= cfg.max_length
        /\ LET r == has_leet_substitutions(s) IN r.has_numeric # r.has_symbol }

UncappedRunDone ==
    /\ pc = "returned"
    /\ cfg.max_results = 0
    /\ \A n \in Range(cfg.digits_range) : n \in 0..99

C3_EmittedWithinLength ==
    \A i \in DOMAIN out_f :
        cfg.min_length <= Len(out_f[i]) /\ Len(out_f[i]) <= cfg.max_length

\* A finished run that wrote candidates, skipped one that was too short and one
\* that was too long.
C3_Witness ==
    /\ pc = "returned"
    /\ out_f # <<>>
    /\ \E i \in DOMAIN passes : i < pos /\ Len(passes[i].candidate) < cfg.min_length
    /\ \E i \in DOMAIN passes : i < pos /\ Len(passes[i].candidate) > cfg.max_length

\* C4: with dedupe enabled no string is written twice, and at every point of the
\* run the set of written lines is `seen` and has total_written elements.
C4_NoDuplicateWritten ==
    cfg.dedupe =>
        /\ \A i, j \in DOMAIN out_f : out_f[i] = out_f[j] => i = j
        /\ Range(out_f) = seen
        /\ Cardinality(seen) = total_written
        /\ Len(out_f) = total_written

\* A deduplicating run in which two passes produced the same written candidate
\* (the adjectives "ca" and "ka" both yield "<a").
C4_Witness ==
    /\ cfg.dedupe
    /\ pc = "returned"
    /\ \E i, j \in DOMAIN passes :
          /\ i < j /\ j < pos
          /\ passes[i].candidate = passes[j].candidate
          /\ passes[i].candidate \in seen

----------------------------------------------------------------------------
(* The pure functions, applied to drawn inputs                              *)

\* Words and texts drawn have at most this many characters.
MaxWordLen == 3

\* The recovered words of a synthetic password have at most this many characters.
MaxPartLen == 2

\* The strings over alphabet A of n characters or fewer.
StringsUpTo(A, n) == UNION {[1..k -> A] : k \in 0..n}

Jade == <<"j", "a", "d", "e">>

\* Inputs of apply_leet_transformations.
LeetWords == {Jade} \cup StringsUpTo({"c", "d", "e", "x", "K", "3"}, MaxWordLen)

\* The cases of test_leet_validation, by the verdict it expects.
NumericOnlyCases ==
    { <<"w", "1", "l", "d", "L", "i", "o", "n", "4", "2">>,
      <<"w", "i", "l", "d", "L", "1", "0", "n", "4", "2">>,
      <<"w", "i", "l", "d", "7", "i", "g", "e", "r", "9", "9">> }

SymbolOnlyCases ==
    { <<"w", "!", "l", "d", "L", "i", "o", "n", "4", "2">>,
      <<"w", "i", "l", "d", "L", "!", "o", "n", "4", "2">>,
      <<"b", "r", "@", "v", "e", "E", "a", "g", "l", "e", "2", "3">> }

NoLeetCases ==
    { <<"w", "i", "l", "d", "L", "i", "o", "n", "4", "2">>,
      <<"g", "e", "n", "t", "l", "e", "T", "i", "g", "e", "r", "9", "9">> }

MixedCases ==
    { <<"w", "1", "l", "d", "L", "!", "o", "n", "4", "2">>,
      <<"w", "!", "l", "d", "L", "1", "0", "n", "4", "2">>,
      <<"w", "1", "l", "d", "7", "!", "g", "e", "r", "4", "2">>,
      <<"w", "!", "1", "d", "L", "i", "o", "n", "4", "2">> }

\* Inputs of has_leet_substitutions and is_valid_leet_combination.
ClassifierTexts ==
    NumericOnlyCases \cup SymbolOnlyCases \cup NoLeetCases \cup MixedCases
    \cup { <<"w", "!", "l", "d", "L", "!", "o", "n", "4", "2">>, <<"w", "#", "l", "d", "L", "i", "o", "n", "4", "2">> }
    \cup StringsUpTo({"a", "B", "1", "!", "#"}, MaxWordLen)

\* Lowercase alphabetic words of 1..MaxPartLen letters.
AlphaWords == StringsUpTo({"a", "c", "t"}, MaxPartLen) \ {<<>>}

\* adjective + noun.capitalize() + "42"
Synthetic(adjective, noun) == adjective \o capitalize(noun) \o <<"4", "2">>

\* Inputs of analyze_password_structure.
ProbePasswords == {Synthetic(a, n) : <<a, n>> \in AlphaWords \X AlphaWords}

\* Bodies of at most this many characters are split.
MaxBodyLen == 4

\* Bodies over a lowercase letter, an uppercase letter, the ambiguous symbol "<"
\* and a digit that is no leet symbol.
SplitterBodies == StringsUpTo({"a", "B", "<", "1"}, MaxBodyLen)

\* Inputs of analyze_password_structure that exercise the Token Splitter.
SplitterPasswords == {body \o <<"4", "2">> : body \in SplitterBodies}

\* Inputs of deleet_word: fragments over a lowercase letter, an uppercase letter,
\* the ambiguous "<", the unambiguous "(" and a digit that is no leet symbol.
DeleetFragments == StringsUpTo({"a", "K", "<", "(", "1"}, MaxWordLen)

CodecInit ==
    /\ arg \in LeetWords \cup ClassifierTexts \cup ProbePasswords \cup SplitterPasswords
                \cup DeleetFragments
    /\ spell \in SUBSET SpellUniverse
    /\ hash_order \in HashOrders
    /\ corpus = {}
    /\ files = NoFiles
    /\ sat = NoCall
    /\ fetch = NoCall
    /\ ret = NoCall
    /\ adjectives = {}
    /\ nouns = {}
    /\ password_patterns = <<>>
    /\ cfg = [mode |-> "none"]
    /\ output_file = "absent"
    /\ out_f = <<>>
    /\ seen = {}
    /\ total_written = 0
    /\ rejected_mixed = 0
    /\ passes = <<>>
    /\ pos = 1
    /\ pc = "idle"
    /\ last = NoCall

Call(fn, value) ==
    /\ ret = NoCall
    /\ ret' = [fn |-> fn, value |-> value]
    /\ UNCHANGED <<adjectives, nouns, arg, pc, analyzerVars, generatorVars>>

CallApplyLeet ==
    /\ arg \in LeetWords
    /\ Call("apply_leet_transformations", apply_leet_transformations(arg))

CallHasLeet ==
    /\ arg \in ClassifierTexts
    /\ Call("has_leet_substitutions", has_leet_substitutions(arg))

CallIsValid ==
    /\ arg \in ClassifierTexts
    /\ Call("is_valid_leet_combination", is_valid_leet_combination(arg))

\* analyze_password_structure(arg); `split` is what left and right hold when the
\* three attempts are over (Fail when the function has returned None by then).
CallAnalyzeStructure ==
    /\ arg \in ProbePasswords \cup SplitterPasswords
    /\ ret = NoCall
    /\ ret' = [fn |-> "analyze_password_structure",
               value |-> analyze_password_structure(arg, spell, hash_order),
               split |-> IF arg = <<>> \/ TooShortPassword(arg) THEN Fail
                         ELSE SplitBody(SubSeq(arg, 1, Len(arg) - 2))]
    /\ UNCHANGED <<adjectives, nouns, arg, pc, analyzerVars, generatorVars>>

CallDeleetWord ==
    /\ arg \in DeleetFragments
    /\ Call("deleet_word", deleet_word(arg, spell, hash_order))

CodecNext ==
    CallApplyLeet \/ CallHasLeet \/ CallIsValid \/ CallAnalyzeStructure \/ CallDeleetWord

SpecCodec == CodecInit /\ [][CodecNext]_vars

----------------------------------------------------------------------------
(* Corpus analysis                                                          *)

\* At most this many passwords in one analyze_corpus call.
MaxBatch == 2

\* At most this many records in the analysis log.
MaxLog == 4

PasswordBatches == StringsUpTo(FetchedPasswords, MaxBatch)

\* What the service returns in one process: passwords that parse beside one that
\* is too short, or beside two that parse no further.
Corpora ==
    { { <<"<", "a", "O", "x", "4", "2">>, <<"c", "a", "E", "d", "4", "2">>, <<"a", "b", "1">> },
      { <<"c", "a", "E", "d", "4", "2">>, <<"a", "b", "4", "2">>,
        <<"#", "a", "O", "x", "4", "2">> } }

AnalyzerInit ==
    /\ adjectives = {}
    /\ nouns = {}
    /\ password_patterns = <<>>
    /\ spell \in SUBSET SpellUniverse
    /\ hash_order \in HashOrders
    /\ corpus \in Corpora
    /\ files = NoFiles
    /\ sat = NoCall
    /\ fetch = NoCall
    /\ last = NoCall
    /\ ret = NoCall
    /\ arg = <<>>
    /\ cfg = [mode |-> "none"]
    /\ output_file = "absent"
    /\ out_f = <<>>
    /\ seen = {}
    /\ total_written = 0
    /\ rejected_mixed = 0
    /\ passes = <<>>
    /\ pos = 1
    /\ pc = "idle"

\* One call of analyze_corpus.  `last` keeps its arguments, the two counts it
\* starts from and whether the call before it had the same passwords.
AnalyzeCorpus ==
    /\ pc = "idle"
    /\ \E passwords \in {b \in PasswordBatches : Range(b) \subseteq corpus},
          append_mode \in BOOLEAN :
        \E r \in {analyze_corpus(adjectives, nouns, password_patterns, passwords,
                                  append_mode, spell, hash_order)} :
            /\ Len(r.password_patterns) <= MaxLog
            /\ adjectives' = r.adjectives
            /\ nouns' = r.nouns
            /\ password_patterns' = r.password_patterns
            /\ ret' = [fn |-> "analyze_corpus", value |-> r.result]
            /\ last' = [fn |-> "analyze_corpus", passwords |-> passwords,
                        append_mode |-> append_mode,
                        repeated |-> last # NoCall /\ last.passwords = passwords,
                        initial_adj_count |-> r.initial_adj_count,
                        initial_noun_count |-> r.initial_noun_count,
                        initial_log_len |-> r.initial_log_len]
            /\ UNCHANGED <<spell, hash_order, corpus, files, sat, fetch, arg, pc, generatorVars>>

AnalyzerNext == AnalyzeCorpus

SpecAnalyzer == AnalyzerInit /\ [][AnalyzerNext]_vars

----------------------------------------------------------------------------
(* Saturation fetch and the vocabulary files                                *)

\* save_components: both files rewritten with the words in memory.
save_components(adjs, nns) == [adjectives |-> FileOf(adjs), nouns |-> FileOf(nns)]

\* load_components on the files fs with adjs and nns in memory: what it returns and
\* the sets it leaves.  The adjective set is assigned before the noun file is opened.
load_components(fs, adjs, nns) ==
    IF ~fs.adjectives.exists
    THEN [ok |-> FALSE, adjectives |-> adjs, nouns |-> nns]
    ELSE IF ~fs.nouns.exists
    THEN [ok |-> FALSE, adjectives |-> fs.adjectives.words, nouns |-> nns]
    ELSE [ok |-> TRUE, adjectives |-> fs.adjectives.words, nouns |-> fs.nouns.words]

\* The load at the head of fetch_until_saturation, made only when both files exist.
LoadExisting(fs, adjs, nns) ==
    IF fs.adjectives.exists /\ fs.nouns.exists
    THEN load_components(fs, adjs, nns)
    ELSE [ok |-> FALSE, adjectives |-> adjs, nouns |-> nns]

\* The calls of fetch_until_saturation made; min_new_ratio is <<numerator,
\* denominator>>.  A target of 0; a target that the second batch of 2 overshoots
\* unless it is clipped; runs of up to 5 batches of 1 with the default threshold
\* and with a threshold of 1.
SaturationArguments ==
    { [target_samples |-> 0, batch_size |-> 1, min_new_ratio |-> <<1, 100>>, max_batches |-> 1],
      [target_samples |-> 3, batch_size |-> 2, min_new_ratio |-> <<1, 100>>, max_batches |-> 2],
      [target_samples |-> 3, batch_size |-> 1, min_new_ratio |-> <<1, 100>>, max_batches |-> 5],
      [target_samples |-> 3, batch_size |-> 1, min_new_ratio |-> <<1, 1>>, max_batches |-> 5] }

\* The batch size without the clip to what remains of the target.
current_batch_size_unclipped(s) == s.batch_size

\* min(batch_size, target_samples - total_fetched)
current_batch_size(s) ==
    IF s.batch_size <= s.target_samples - s.total_fetched
    THEN s.batch_size ELSE s.target_samples - s.total_fetched

\* new / max(1, prev) if prev > 0 else 1.0, compared with min_new_ratio: TRUE when
\* the growth ratio is below it.
GrowthBelow(new, prev, min_new_ratio) ==
    IF prev > 0 THEN new * min_new_ratio[2] < min_new_ratio[1] * prev
    ELSE min_new_ratio[2] < min_new_ratio[1]

\* The first break taken as soon as one of the two growth ratios is below the
\* threshold.
BatchBreak_either(new_adjs, new_nouns, prev_adj_count, prev_noun_count, min_new_ratio, batch_num) ==
    IF /\ \/ GrowthBelow(new_adjs, prev_adj_count, min_new_ratio)
          \/ GrowthBelow(new_nouns, prev_noun_count, min_new_ratio)
       /\ batch_num > 1
    THEN "saturation"
    ELSE IF new_adjs = 0 /\ new_nouns = 0 /\ batch_num > 3 THEN "no_new"
    ELSE "none"

\* The two breaks at the end of a batch: "saturation", "no_new" or "none".
BatchBreak(new_adjs, new_nouns, prev_adj_count, prev_noun_count, min_new_ratio, batch_num) ==
    IF /\ GrowthBelow(new_adjs, prev_adj_count, min_new_ratio)
       /\ GrowthBelow(new_nouns, prev_noun_count, min_new_ratio)
       /\ batch_num > 1
    THEN "saturation"
    ELSE IF new_adjs = 0 /\ new_nouns = 0 /\ batch_num > 3 THEN "no_new"
    ELSE "none"

\* What the service returns in a process that runs fetch_until_saturation.
SatCorpora == { { <<"c", "a", "E", "d", "4", "2">> } }

\* The vocabulary files a process may find: none, both from an earlier run, or
\* the adjective file alone.
InitialFiles ==
    { NoFiles,
      [adjectives |-> FileOf({<<"o", "x">>}), nouns |-> FileOf({<<"e", "d">>})],
      [adjectives |-> FileOf({<<"o", "x">>}), nouns |-> NoFile] }

SatInit ==
    /\ adjectives = {}
    /\ nouns = {}
    /\ password_patterns = <<>>
    /\ spell = {}
    /\ hash_order = "asc"
    /\ corpus \in SatCorpora
    /\ files \in InitialFiles
    /\ sat = NoCall
    /\ fetch = NoCall
    /\ last = NoCall
    /\ ret = NoCall
    /\ arg = <<>>
    /\ cfg = [mode |-> "none"]
    /\ output_file = "absent"
    /\ out_f = <<>>
    /\ seen = {}
    /\ total_written = 0
    /\ rejected_mixed = 0
    /\ passes = <<>>
    /\ pos = 1
    /\ pc = "idle"

\* One call of save_components.
SaveComponents ==
    /\ pc = "idle"
    /\ files' = save_components(adjectives, nouns)
    /\ ret' = [fn |-> "save_components"]
    /\ UNCHANGED <<adjectives, nouns, password_patterns, spell, hash_order, corpus, sat,
                   last, arg, pc, fetch, generatorVars>>

\* One call of load_components: the sets it leaves and the value it returns.
LoadComponents ==
    /\ pc = "idle"
    /\ \E l \in {load_components(files, adjectives, nouns)} :
          /\ adjectives' = l.adjectives
          /\ nouns' = l.nouns
          /\ ret' = [fn |-> "load_components", value |-> l.ok]
    /\ UNCHANGED <<password_patterns, spell, hash_order, corpus, files, sat, last, arg, pc,
                   fetch, generatorVars>>

\* fetch_until_saturation up to its loop: the existing components are loaded when
\* both files exist, and the locals are set.
SaturationBegin ==
    /\ pc = "idle"
    /\ \E a \in SaturationArguments :
        \E l \in {LoadExisting(files, adjectives, nouns)} :
            /\ adjectives' = l.adjectives
            /\ nouns' = l.nouns
            /\ sat' = [fn |-> "fetch_until_saturation",
                       target_samples |-> a.target_samples, batch_size |-> a.batch_size,
                       min_new_ratio |-> a.min_new_ratio, max_batches |-> a.max_batches,
                       loaded_adj_count |-> IF l.ok THEN Cardinality(l.adjectives) ELSE 0,
                       loaded_noun_count |-> IF l.ok THEN Cardinality(l.nouns) ELSE 0,
                       total_fetched |-> 0, batch_num |-> 1]
    /\ pc' = "saturating"
    /\ UNCHANGED <<password_patterns, spell, hash_order, corpus, files, last, ret, arg,
                   fetch, generatorVars>>

\* One pass of the loop of fetch_until_saturation: fetch a batch, analyze_corpus on
\* it in append mode, save_components, then the two breaks; a break ends the call
\* and its locals are gone.  `printed` is the message that tells why the loop was
\* left: "saturation" (Saturation reached!), "no_new" (Confirmed saturation),
\* "target" (Target sample count reached), "none" (the range is exhausted).
SaturationBatch ==
    /\ pc = "saturating"
    /\ sat.batch_num <= sat.max_batches
    /\ current_batch_size(sat) > 0
    /\ \E passwords \in {b \in PasswordBatches :
                            Range(b) \subseteq corpus /\ Len(b) <= current_batch_size(sat)} :
        \E r \in {analyze_corpus(adjectives, nouns, password_patterns, passwords, TRUE,
                                  spell, hash_order)} :
            LET total_fetched == sat.total_fetched + Len(passwords)
                new_adjs      == Cardinality(r.adjectives) - Cardinality(adjectives)
                new_nouns     == Cardinality(r.nouns) - Cardinality(nouns)
                break         == BatchBreak(new_adjs, new_nouns, Cardinality(adjectives),
                                            Cardinality(nouns), sat.min_new_ratio,
                                            sat.batch_num)
            IN  /\ Len(r.password_patterns) <= MaxLog
                /\ adjectives' = r.adjectives
                /\ nouns' = r.nouns
                /\ password_patterns' = r.password_patterns
                /\ last' = [fn |-> "analyze_corpus", passwords |-> passwords,
                            append_mode |-> TRUE,
                            repeated |-> last # NoCall /\ last.passwords = passwords,
                            initial_adj_count |-> r.initial_adj_count,
                            initial_noun_count |-> r.initial_noun_count,
                            initial_log_len |-> r.initial_log_len]
                /\ files' = save_components(r.adjectives, r.nouns)
                /\ IF break = "none"
                   THEN /\ sat' = [sat EXCEPT !.total_fetched = total_fetched,
                                              !.batch_num = sat.batch_num + 1]
                        /\ ret' = [fn |-> "analyze_corpus", value |-> r.result]
                        /\ pc' = pc
                   ELSE /\ sat' = NoCall
                        /\ ret' = [fn |-> "fetch_until_saturation", value |-> total_fetched,
                                   printed |-> break]
                        /\ pc' = "idle"
    /\ UNCHANGED <<spell, hash_order, corpus, arg, fetch, generatorVars>>

\* The loop ends: max_batches batches were run, or the target is reached.
SaturationEnd ==
    /\ pc = "saturating"
    /\ sat.batch_num > sat.max_batches \/ current_batch_size(sat) <= 0
    /\ sat' = NoCall
    /\ ret' = [fn |-> "fetch_until_saturation", value |-> sat.total_fetched,
               printed |-> IF sat.batch_num > sat.max_batches THEN "none" ELSE "target"]
    /\ pc' = "idle"
    /\ UNCHANGED <<adjectives, nouns, password_patterns, spell, hash_order, corpus, files,
                   last, arg, fetch, generatorVars>>

SatNext ==
    \/ AnalyzeCorpus
    \/ SaveComponents
    \/ LoadComponents
    \/ SaturationBegin
    \/ SaturationBatch
    \/ SaturationEnd

SpecSaturation == SatInit /\ [][SatNext]_vars

\* The same, with a running fetch_until_saturation always taking its next step:
\* each batch fetch returns, so the loop body and the code after the loop run.
SpecSaturationFair ==
    SatInit /\ [][SatNext]_vars /\ WF_vars(SaturationBatch) /\ WF_vars(SaturationEnd)

----------------------------------------------------------------------------
(* Threaded fetch: DinoPassAnalyzer.fetch_passwords_threaded and            *)
(* DinoPassTester.fetch_dinopass_sample                                     *)

\* At most this many requests are submitted in one call.
MaxRequests == 2

\* max_workers of the calls made.
WorkerCounts == {1, 2}

\* How a request ends: status 200 with a password, status 200 with a blank body,
\* another status, a requests.RequestException.
Outcomes == {"password", "blank", "status", "exception"}

FailedOutcomes == {"status", "exception"}

\* What fetch_single_password puts on the queue for request i:
\* response.text.strip() or None.
QueueItem(i, outcome) ==
    [req |-> i,
     p   |-> CASE outcome = "password" -> "password"
               [] outcome = "blank" -> ""
               [] OTHER -> "None"]

\* Every item taken for a password.
Truthy_always(p) == TRUE

\* `if p:` for what the queue holds: None and the empty string are falsy.
Truthy(p) == p # "None" /\ p # ""

\* The worker threads that hold a request.
Busy(f) == {i \in DOMAIN f.worker : f.worker[i] \in {"running", "load", "store"}}

FetchInit ==
    /\ adjectives = {}
    /\ nouns = {}
    /\ password_patterns = <<>>
    /\ spell = {}
    /\ hash_order = "asc"
    /\ corpus = {}
    /\ files = NoFiles
    /\ sat = NoCall
    /\ fetch = NoCall
    /\ last = NoCall
    /\ ret = NoCall
    /\ arg = <<>>
    /\ cfg = [mode |-> "none"]
    /\ output_file = "absent"
    /\ out_f = <<>>
    /\ seen = {}
    /\ total_written = 0
    /\ rejected_mixed = 0
    /\ passes = <<>>
    /\ pos = 1
    /\ pc = "idle"

\* The call up to its loop: the locals are set and `count` requests are submitted
\* to a pool of max_workers threads.
FetchBegin ==
    /\ pc = "idle"
    /\ \E fn \in {"fetch_passwords_threaded", "fetch_dinopass_sample"},
          count \in 0..MaxRequests, max_workers \in WorkerCounts :
          fetch' = [fn |-> fn, count |-> count, max_workers |-> max_workers,
                    worker |-> [i \in 1..count |-> "queued"],
                    outcome |-> [i \in 1..count |-> "pending"],
                    loaded |-> [i \in 1..count |-> 0],
                    password_queue |-> <<>>,
                    failed_requests |-> 0,
                    passwords |-> <<>>,
                    collected |-> 0,
                    timed_out |-> FALSE]
    /\ pc' = "collecting"
    /\ UNCHANGED <<adjectives, nouns, password_patterns, spell, hash_order, corpus, files,
                   sat, last, ret, arg, generatorVars>>

FetchStep(f) ==
    /\ fetch' = f
    /\ UNCHANGED <<adjectives, nouns, password_patterns, spell, hash_order, corpus, files,
                   sat, last, ret, arg, pc, generatorVars>>

\* A free thread of the pool takes the request submitted first among those waiting.
WorkerStart ==
    /\ pc \in {"collecting", "joining"}
    /\ \E i \in DOMAIN fetch.worker :
          /\ fetch.worker[i] = "queued"
          /\ \A j \in 1..(i - 1) : fetch.worker[j] # "queued"
          /\ Cardinality(Busy(fetch)) < fetch.max_workers
          /\ FetchStep([fetch EXCEPT !.worker[i] = "running"])

\* requests.get returns or raises, and the item is put on the queue.  In
\* fetch_dinopass_sample a failed request goes on to failed_requests += 1.
WorkerRespond ==
    /\ pc \in {"collecting", "joining"}
    /\ \E i \in DOMAIN fetch.worker, outcome \in Outcomes :
          /\ fetch.worker[i] = "running"
          /\ FetchStep([fetch EXCEPT
                !.outcome[i] = outcome,
                !.password_queue = Append(@, QueueItem(i, outcome)),
                !.worker[i] = IF outcome \in FailedOutcomes /\ fetch.fn = "fetch_dinopass_sample"
                              THEN "load" ELSE "done"])

\* failed_requests += 1 on the nonlocal, first half: the value is read.
WorkerLoad ==
    /\ pc \in {"collecting", "joining"}
    /\ \E i \in DOMAIN fetch.worker :
          /\ fetch.worker[i] = "load"
          /\ FetchStep([fetch EXCEPT !.loaded[i] = fetch.failed_requests,
                                     !.worker[i] = "store"])

\* failed_requests += 1, second half: the value read plus one is stored.
WorkerStore ==
    /\ pc \in {"collecting", "joining"}
    /\ \E i \in DOMAIN fetch.worker :
          /\ fetch.worker[i] = "store"
          /\ FetchStep([fetch EXCEPT !.failed_requests = fetch.loaded[i] + 1,
                                     !.worker[i] = "done"])

\* One pass of the collecting loop with an item on the queue.
CollectorGet ==
    /\ pc = "collecting"
    /\ fetch.collected < fetch.count
    /\ fetch.password_queue # <<>>
    /\ LET item == Head(fetch.password_queue)
       IN  FetchStep([fetch EXCEPT
                !.password_queue = Tail(@),
                !.passwords = IF Truthy(item.p) THEN Append(@, item) ELSE @,
                !.collected = @ + 1])

\* password_queue.get times out on an empty queue: queue.Empty, break.
CollectorTimeout ==
    /\ pc = "collecting"
    /\ fetch.collected < fetch.count
    /\ fetch.password_queue = <<>>
    /\ fetch' = [fetch EXCEPT !.timed_out = TRUE]
    /\ pc' = "joining"
    /\ UNCHANGED <<adjectives, nouns, password_patterns, spell, hash_order, corpus, files,
                   sat, last, ret, arg, generatorVars>>

\* The loop ends with `count` items collected.
CollectorDone ==
    /\ pc = "collecting"
    /\ fetch.collected >= fetch.count
    /\ pc' = "joining"
    /\ UNCHANGED <<adjectives, nouns, password_patterns, spell, hash_order, corpus, files,
                   sat, fetch, last, ret, arg, generatorVars>>

\* The `with` block is left once every submitted request has run; the call
\* returns `passwords`.
FetchReturn ==
    /\ pc = "joining"
    /\ \A i \in DOMAIN fetch.worker : fetch.worker[i] = "done"
    /\ pc' = "returned"
    /\ ret' = [fn |-> fetch.fn, value |-> fetch.passwords]
    /\ UNCHANGED <<adjectives, nouns, password_patterns, spell, hash_order, corpus, files,
                   sat, fetch, last, arg, generatorVars>>

FetchNext ==
    \/ FetchBegin
    \/ WorkerStart
    \/ WorkerRespond
    \/ WorkerLoad
    \/ WorkerStore
    \/ CollectorGet
    \/ CollectorTimeout
    \/ CollectorDone
    \/ FetchReturn

SpecFetch == FetchInit /\ [][FetchNext]_vars

----------------------------------------------------------------------------
(* Properties of the pure functions                                         *)

Applied(fn) == ret # NoCall /\ ret.fn = fn

BaseVariant(word) == IF word # <<>> /\ isalpha(word[1]) THEN upperFirst(word) ELSE word

\* The positions at which variant v differs from w, ignoring the case of the
\* first character of v.
DiffPositions(v, w) ==
    {j \in DOMAIN w : (IF j = 1 THEN lowerChar(v[j]) ELSE v[j]) # w[j]}

\* The number of substitute options over the mappable positions of w.
RECURSIVE SubstituteOptions(_)
SubstituteOptions(w) ==
    IF w = <<>> THEN 0
    ELSE (IF Head(w) \in DOMAIN leetspeak_map THEN Len(leetspeak_map[Head(w)]) ELSE 0)
         + SubstituteOptions(Tail(w))

\* C6: each non-base variant differs from the lowercased word (ignoring the case
\* of the first letter) at exactly one position, where a mappable letter is
\* replaced by one of its substitutes; there are at most m of them for a word
\* with m substitute options.
C6_SingleSubstitution ==
    Applied("apply_leet_transformations") =>
        LET w       == lower(arg)
            nonbase == Range(ret.value) \ {BaseVariant(arg)}
        IN  /\ \A v \in nonbase :
                  /\ Len(v) = Len(w)
                  /\ \E i \in DOMAIN w :
                        /\ DiffPositions(v, w) = {i}
                        /\ w[i] \in DOMAIN leetspeak_map
                        /\ v[i] \in Range(leetspeak_map[w[i]])
            /\ Cardinality(nonbase) <= SubstituteOptions(w)
            /\ BaseVariant(arg) \in Range(ret.value)
            /\ Len(ret.value) = Cardinality(Range(ret.value))

\* A word with two mappable positions and three options, all of them returned.
C6_Witness ==
    /\ Applied("apply_leet_transformations")
    /\ arg = <<"c", "e">>
    /\ Len(ret.value) = 4

\* C7: is_valid_leet_combination(text) is true exactly when has_leet_substitutions
\* reports numeric evidence or symbol evidence but not both; the numeric-only and
\* symbol-only cases of test_leet_validation are valid, its no-leet and mixed
\* cases are invalid.
C7_ValidIffExactlyOneKind ==
    Applied("is_valid_leet_combination") =>
        LET r == has_leet_substitutions(arg)
        IN  /\ ret.value = (r.has_numeric # r.has_symbol)
            /\ arg \in NumericOnlyCases => ret.value /\ r.has_numeric /\ ~r.has_symbol
            /\ arg \in SymbolOnlyCases => ret.value /\ r.has_symbol /\ ~r.has_numeric
            /\ arg \in NoLeetCases => ~ret.value /\ ~r.has_numeric /\ ~r.has_symbol
            /\ arg \in MixedCases => ~ret.value /\ r.has_numeric /\ r.has_symbol

\* The mixed case w1ldL!on42 has been refused.
C7_Witness ==
    /\ Applied("is_valid_leet_combination")
    /\ arg = <<"w", "1", "l", "d", "L", "!", "o", "n", "4", "2">>
    /\ ret.value = FALSE

\* C8 as stated: a body that holds a non-alphabetic, non-digit character, whether
\* or not it is a substitute of the Leet Mapping, has symbol-leet evidence.
C8_AnyOtherCharIsSymbol ==
    Applied("has_leet_substitutions") =>
        ((\E c \in Range(StripTwoDigits(arg)) : ~isalpha(c) /\ ~isdigit(c))
            => ret.value.has_symbol)

\* The pairs (adjective, noun) of drawn words the password is built from: every
\* cut of the password before its "42" that Synthetic maps back to it.
SyntheticParts(password) ==
    { pair \in { <<SubSeq(password, 1, k),
                   lower(SubSeq(password, k + 1, Len(password) - 2))>> :
                 k \in 1..(Len(password) - 3) } :
        /\ pair[1] \in AlphaWords
        /\ pair[2] \in AlphaWords
        /\ Synthetic(pair[1], pair[2]) = password }

\* C9 as stated: a password adjective + noun.capitalize() + "42" built from
\* lowercase alphabetic words is split at the uppercase boundary into that
\* adjective and that noun.
C9_AsStated ==
    Applied("analyze_password_structure") =>
        \A pair \in SyntheticParts(arg) :
            ret.value.ok /\ ret.value.adjective = pair[1] /\ ret.value.noun = pair[2]

\* C9, amended: a password adjective + noun.capitalize() + "42" built from
\* lowercase alphabetic words of two letters or more is split at the uppercase
\* boundary into that adjective and that noun; with a one-letter word the
\* analysis returns None.
C9_RoundTrip ==
    (Applied("analyze_password_structure") /\ arg \in ProbePasswords) =>
        /\ SyntheticParts(arg) # {}
        /\ \A pair \in SyntheticParts(arg) :
              IF Len(pair[1]) >= 2 /\ Len(pair[2]) >= 2
              THEN /\ ret.value.ok
                   /\ ret.value.adjective = pair[1]
                   /\ ret.value.noun = pair[2]
                   /\ lower(ret.value.noun) = lower(capitalize(pair[2]))
              ELSE ~ret.value.ok

\* The password caAt42 has been analysed.
C9_Witness ==
    /\ Applied("analyze_password_structure")
    /\ arg = Synthetic(<<"c", "a">>, <<"a", "t">>)
    /\ ret.value.ok

----------------------------------------------------------------------------
(* Properties of corpus analysis                                            *)

\* The call just made analysed, in append mode, the passwords of the call before it.
SecondPass == last # NoCall /\ last.repeated /\ last.append_mode

\* C10: analysing the same passwords a second time in append mode does not grow
\* the adjective set or the noun set, and the second pass reports
\* new_adjectives = 0 and new_nouns = 0.
C10_SecondPassAddsNothing ==
    SecondPass =>
        /\ Cardinality(adjectives) = last.initial_adj_count
        /\ Cardinality(nouns) = last.initial_noun_count
        /\ ret.value.new_adjectives = 0
        /\ ret.value.new_nouns = 0

\* A second pass over a batch that holds the ambiguous password and was analysed
\* with success.
C10_Witness ==
    /\ SecondPass
    /\ <<"<", "a", "O", "x", "4", "2">> \in Range(last.passwords)
    /\ ret.value.successful = 2
    /\ Len(password_patterns) = 4

----------------------------------------------------------------------------
(* Properties of the generator run: cap, empty Vocabulary, order            *)

\* The passes of the running call that write when no cap stops the run: with
\* dedupe one per distinct candidate, without it one per pass.
WritingPasses ==
    {i \in DOMAIN passes :
        /\ cfg.min_length <= Len(passes[i].candidate)
        /\ Len(passes[i].candidate) <= cfg.max_length
        /\ is_valid_leet_combination(passes[i].candidate)}

UncappedWrites ==
    IF cfg.dedupe THEN Cardinality({passes[i].candidate : i \in WritingPasses})
    ELSE Cardinality(WritingPasses)

Min(a, b) == IF a <= b THEN a ELSE b

\* C11: with a result cap k >= 1 the number of lines written never exceeds k,
\* the run has returned as soon as the k-th line is written (no pass comes after
\* it), and the count returned is the number of lines written, which is
\* min(k, what the uncapped run writes).
C11_CapStopsRun ==
    cfg.max_results >= 1 =>
        /\ Len(out_f) <= cfg.max_results
        /\ total_written = Len(out_f)
        /\ Len(out_f) = cfg.max_results => pc = "returned"
        /\ pc = "returned" =>
              /\ ret.value = Len(out_f)
              /\ ret.value = Min(cfg.max_results, UncappedWrites)

\* A capped run that returned at the cap with passes left that would have written.
C11_Witness ==
    /\ cfg.max_results >= 1
    /\ pc = "returned"
    /\ Len(out_f) = cfg.max_results
    /\ \E i \in WritingPasses : i > pos /\ passes[i].candidate \notin seen

\* C12: a generator called with an empty adjective set or an empty noun set
\* returns 0 without raising, writes nothing, leaves the output file as it was
\* (not created, not modified) and leaves Vocabulary as it was.
C12_EmptyVocabularyReturnsZero ==
    [][ (pc = "idle" /\ (adjectives = {} \/ nouns = {})) =>
            /\ pc' = "returned"
            /\ ret' = [fn |-> cfg.mode, value |-> 0]
            /\ output_file' = output_file
            /\ out_f' = <<>>
            /\ adjectives' = adjectives
            /\ nouns' = nouns ]_vars

\* A call with adjectives but no nouns has returned 0 beside a file from before.
C12_Witness ==
    /\ pc = "returned"
    /\ adjectives # {}
    /\ nouns = {}
    /\ ret.value = 0
    /\ output_file = "stale"

\* C13 as stated: a generator interrupted while it runs stops between two
\* candidates and returns to its caller the count of candidates written so far.
C13_InterruptReturnsCount ==
    pc = "interrupted" =>
        /\ "value" \in DOMAIN ret
        /\ ret.value = Len(out_f)

\* The place of a type-combination in the fixed order of the four allowed ones.
TypeRank(adj_type, noun_type) ==
    CASE adj_type = "base" /\ noun_type = "numeric_leet" -> 1
      [] adj_type = "base" /\ noun_type = "symbol_leet" -> 2
      [] adj_type = "numeric_leet" /\ noun_type = "base" -> 3
      [] adj_type = "symbol_leet" /\ noun_type = "base" -> 4
      [] OTHER -> 0

IndexIn(list, x) == CHOOSE i \in DOMAIN list : list[i] = x

\* The numeric part of the place of a pass: type-combination, adjective variant,
\* noun variant, digit suffix.
InnerKey(p) ==
    << TypeRank(p.adj_type, p.noun_type),
       IndexIn(variations_map(p.base_adj, TRUE)[p.adj_type], p.adj_var),
       IndexIn(variations_map(p.base_noun, FALSE)[p.noun_type], p.noun_var),
       IndexIn(cfg.digits_range, p.n) >>

TupleLess(x, y) ==
    \E i \in DOMAIN x : x[i] < y[i] /\ \A j \in 1..(i - 1) : x[j] = y[j]

\* p comes before q: by adjective, then noun, then the inner key.
PassBefore(p, q) ==
    \/ StrLess(p.base_adj, q.base_adj)
    \/ /\ p.base_adj = q.base_adj
       /\ \/ StrLess(p.base_noun, q.base_noun)
          \/ p.base_noun = q.base_noun /\ TupleLess(InnerKey(p), InnerKey(q))

\* Every combination of an adjective, a noun, an allowed type-combination, a
\* variant of each and a digit suffix: how many there are.
CombinationCount(adjs, nns, digits_range) ==
    LET RECURSIVE Sum(_)
        Sum(S) == IF S = {} THEN 0
                  ELSE LET x == CHOOSE y \in S : TRUE
                       IN  Len(variations_map(x[1], TRUE)[x[3][1]])
                             * Len(variations_map(x[2], FALSE)[x[3][2]])
                             * Len(digits_range)
                           + Sum(S \ {x})
    IN  Sum(adjs \X nns \X FourTypePairs)

\* C16: the candidates are visited, and so written, in one order that the sets
\* Vocabulary holds and the configuration determine: by adjective in sorted order,
\* then noun in sorted order, then the four type-combinations in their fixed
\* order, then adjective variant, noun variant and digit suffix; every combination
\* is visited once, and each step writes the candidate of the next pass or nothing.
C16_DeterministicOrder ==
    [][ /\ (pc = "idle" /\ pc' = "loop") =>
              /\ \A i \in 1..(Len(passes') - 1) : PassBefore(passes'[i], passes'[i + 1])
              /\ Len(passes') = CombinationCount(adjectives, nouns, cfg.digits_range)
              /\ \A i \in DOMAIN passes' :
                    /\ passes'[i].base_adj \in adjectives
                    /\ passes'[i].base_noun \in nouns
                    /\ TypeRank(passes'[i].adj_type, passes'[i].noun_type) > 0
        /\ pc = "loop" =>
              /\ passes' = passes
              /\ \/ out_f' = out_f /\ pos' >= pos
                 \/ out_f' = Append(out_f, passes[pos].candidate) /\ pos' >= pos ]_vars

\* A finished run over two adjectives and two nouns that wrote lines of both
\* adjectives.
C16_Witness ==
    /\ pc = "returned"
    /\ pos > Len(passes)
    /\ Cardinality(adjectives) = 2
    /\ Cardinality(nouns) = 2
    /\ \E i, j \in DOMAIN passes :
          /\ passes[i].base_adj # passes[j].base_adj
          /\ passes[i].candidate \in Range(out_f)
          /\ passes[j].candidate \in Range(out_f)

\* The word is made of lowercase letters only.
IsLowerAlpha(word) == \A i \in DOMAIN word : word[i] \in Range(Lower)

\* Vocabulary holds lowercase alphabetic words only and digits_range yields values
\* within 0..99 only.
PlainRun ==
    /\ cfg.mode # "none"
    /\ \A w \in adjectives \cup nouns : IsLowerAlpha(w)
    /\ \A k \in DOMAIN cfg.digits_range : cfg.digits_range[k] \in 0..99

\* C25: with lowercase alphabetic words and digit values within 0..99 the
\* re-validation of process_candidate rejects no candidate: rejected_mixed stays 0.
C25_NothingRejected == PlainRun => rejected_mixed = 0

\* Such a run has ended with lines written, of a symbol kind and of a numeric kind.
C25_Witness ==
    /\ PlainRun
    /\ pc = "returned"
    /\ pos > Len(passes)
    /\ \E i, j \in DOMAIN passes :
          /\ passes[i].noun_type = "numeric_leet"
          /\ passes[j].adj_type = "symbol_leet"
          /\ passes[i].candidate \in Range(out_f)
          /\ passes[j].candidate \in Range(out_f)

\* Vocabulary holds lowercase alphabetic words of two letters or more only.
PlainVocabulary ==
    \A w \in adjectives \cup nouns : IsLowerAlpha(w) /\ Len(w) >= 2

\* C26: a candidate written from a Vocabulary of lowercase alphabetic words of two
\* letters or more, and that holds no "<", is analysed back into the adjective and
\* the noun it was generated from and its last two characters as digits, whatever
\* the dictionary holds.
C26_AnalysisInvertsGeneration ==
    [][ ( /\ pc = "loop"
          /\ PlainVocabulary
          /\ out_f' # out_f
          /\ "<" \notin Range(passes[pos].candidate) ) =>
            LET p == passes[pos]
            IN  /\ out_f' = Append(out_f, p.candidate)
                /\ \A dict \in SUBSET SpellUniverse, order \in HashOrders :
                      LET r == analyze_password_structure(p.candidate, dict, order)
                      IN  /\ r.ok
                          /\ r.adjective = p.base_adj
                          /\ r.noun = p.base_noun
                          /\ r.digits = SubSeq(p.candidate, Len(p.candidate) - 1,
                                                Len(p.candidate)) ]_vars

\* From the adjective ex and the noun ed, the candidates 3xEd.. (numeric adjective
\* variant) and ex>d.. or ex)d.. (symbol noun variant) have been written.
C26_Witness ==
    /\ pc = "returned"
    /\ PlainVocabulary
    /\ <<"e", "x">> \in adjectives
    /\ <<"e", "d">> \in nouns
    /\ \E i, j \in DOMAIN out_f :
          /\ out_f[i][1] = "3"
          /\ out_f[j][3] \in {">", ")", "3"}

\* The locals a generator holds after the passes ps[i..] run from the locals st:
\* the length test, process_candidate and the result cap of the loop body.
RECURSIVE RunFrom(_, _, _)
RunFrom(ps, i, st) ==
    IF i > Len(ps) THEN st
    ELSE IF LengthRejected(Len(ps[i].candidate), cfg.min_length, cfg.max_length)
    THEN RunFrom(ps, i + 1, st)
    ELSE LET r == process_candidate(ps[i].candidate, st.seen, st.out_f, st.total_written,
                                    st.rejected_mixed, cfg.dedupe)
         IN  IF CapReached(cfg.max_results, r.total_written) THEN r
             ELSE RunFrom(ps, i + 1, r)

\* What the generator that cfg.mode does not name leaves when it is called on the
\* same Vocabulary with the same arguments.
OtherRun ==
    RunFrom(IF cfg.mode = "comprehensive"
            THEN CartesianIterations(adjectives, nouns, cfg.digits_range)
            ELSE ComprehensiveIterations(adjectives, nouns, cfg.digits_range),
            1,
            [seen |-> {}, out_f |-> <<>>, total_written |-> 0, rejected_mixed |-> 0])

\* C27: when a generator has returned from a non-empty Vocabulary, the other
\* generator, called on the same Vocabulary with the same digits_range,
\* min_length, max_length, max_results and dedupe, writes the same sequence of
\* candidates and returns the same count.
C27_GeneratorsEquivalent ==
    (pc = "returned" /\ ~NothingLoaded(adjectives, nouns)) =>
        /\ out_f = OtherRun.out_f
        /\ ret.value = OtherRun.total_written

\* A finished run over a noun that has a numeric and a symbol variant wrote
\* candidates of both kinds.
C27_Witness ==
    /\ pc = "returned"
    /\ pos > Len(passes)
    /\ \E i, j \in DOMAIN passes :
          /\ passes[i].base_noun = passes[j].base_noun
          /\ passes[i].base_adj = passes[j].base_adj
          /\ passes[i].noun_type = "numeric_leet"
          /\ passes[j].noun_type = "symbol_leet"
          /\ passes[i].candidate \in Range(out_f)
          /\ passes[j].candidate \in Range(out_f)

----------------------------------------------------------------------------
(* Properties of corpus analysis: parse failures, growth                    *)

\* The fetched passwords that fail to parse, by the three ways of failing: shorter
\* than 4 characters, no split of the body, or a deleeted fragment shorter than 2
\* characters whatever the dictionary and the iteration order.
ShorterThanFour == {p \in FetchedPasswords : Len(p) < 4}

Unsplittable ==
    {p \in FetchedPasswords \ ShorterThanFour : ~SplitBody(SubSeq(p, 1, Len(p) - 2)).ok}

ShortFragment ==
    {p \in FetchedPasswords \ (ShorterThanFour \cup Unsplittable) :
        LET split == SplitBody(SubSeq(p, 1, Len(p) - 2))
        IN  \A dict \in SUBSET SpellUniverse, order \in HashOrders :
                \/ Len(deleet_word(split.left, dict, order)) < 2
                \/ Len(deleet_word(split.right, dict, order)) < 2}

ParseFailures == ShorterThanFour \cup Unsplittable \cup ShortFragment

\* C14: in every analyze_corpus call the passwords that fail to parse (too
\* short, not split, or with a fragment shorter than 2) add nothing: the log grows
\* by the analyses of the other passwords, in order, the two sets by their
\* adjectives and nouns (each adjective with its noun), successful counts those
\* and failed the rest, so that successful + failed is the number of passwords.
C14_FailuresAreSkipped ==
    [][ LET pw         == last'.passwords
            start_adj  == IF last'.append_mode THEN adjectives ELSE {}
            start_noun == IF last'.append_mode THEN nouns ELSE {}
            start_log  == IF last'.append_mode THEN password_patterns ELSE <<>>
            parsed     == SelectSeq(pw, LAMBDA p : p \notin ParseFailures)
            added      == SubSeq(password_patterns', Len(start_log) + 1,
                                 Len(password_patterns'))
        IN  /\ ret'.value.failed = Len(pw) - Len(parsed)
            /\ ret'.value.successful = Len(parsed)
            /\ ret'.value.successful + ret'.value.failed = Len(pw)
            /\ Len(password_patterns') = Len(start_log) + ret'.value.successful
            /\ SubSeq(password_patterns', 1, Len(start_log)) = start_log
            /\ [i \in DOMAIN added |-> added[i].original] = parsed
            /\ adjectives' = start_adj \cup {added[i].adjective : i \in DOMAIN added}
            /\ nouns' = start_noun \cup {added[i].noun : i \in DOMAIN added}
      ]_vars

\* An append-mode call on a password the Splitter cannot split followed by one
\* that parses, made when the log already held a record.
C14_Witness ==
    /\ last # NoCall
    /\ last.passwords = << <<"a", "b", "4", "2">>, <<"c", "a", "E", "d", "4", "2">> >>
    /\ last.append_mode
    /\ last.initial_log_len >= 1
    /\ ret.value.failed = 1
    /\ ret.value.successful = 1
    /\ ParseFailures = { <<"a", "b", "1">>, <<"a", "b", "4", "2">>,
                         <<"#", "a", "O", "x", "4", "2">> }

\* C15 as stated: no step of fetch_until_saturation and no analyze_corpus call in
\* append mode removes a word from the adjective set or the noun set; only
\* analyze_corpus with append_mode = False shrinks them.
C15_VocabularyOnlyGrows ==
    [][ (\/ pc = "saturating"
         \/ pc' = "saturating"
         \/ (last' # NoCall /\ last'.append_mode))
            => (adjectives \subseteq adjectives' /\ nouns \subseteq nouns') ]_vars

----------------------------------------------------------------------------
(* Properties of the Token Splitter and the Deleeter                        *)

\* password[:-2]
BodyOf(password) == SubSeq(password, 1, Len(password) - 2)

\* The places of the uppercase letters of the body after its first character.
InternalUpper(body) == {i \in 2..Len(body) : body[i] \in Range(Upper)}

\* analyze_password_structure has been applied to a password that has a body.
SplitterApplied == Applied("analyze_password_structure") /\ Len(arg) >= 4

LeadingRun(body) ==
    Cardinality({i \in DOMAIN body : \A j \in 1..i : isalpha(body[j])})

\* C18: a body with no internal uppercase letter that starts with one letter or
\* more followed by a non-letter is split after that leading run of letters, also
\* when the non-letter is the last character of the body.
C18_LeadingRunSplit ==
    SplitterApplied =>
        LET body == BodyOf(arg)
            run  == LeadingRun(body)
        IN  (InternalUpper(body) = {} /\ run >= 1 /\ run < Len(body)) =>
                /\ ret.split.ok
                /\ ret.split.left = SubSeq(body, 1, run)
                /\ ret.split.right = SubSeq(body, run + 1, Len(body))

\* The letter/non-letter pattern matches: a leading run of letters, a non-letter
\* and one character more at least.
PatternMatches(body) == LeadingRun(body) >= 1 /\ LeadingRun(body) + 2 <= Len(body)

MappedSymbols(word) == Range(word) \cap DOMAIN reverse_leet_map

\* The lowercased word with every mapped symbol replaced by one of its candidate
\* letters (the same letter at every place of the symbol) and what is no lowercase
\* letter removed: one string for each choice of letters.
ExpectedCandidates(word) ==
    LET syms    == MappedSymbols(word)
        letters == UNION {Range(reverse_leet_map[ch]) : ch \in syms}
        choices == {f \in [syms -> letters] :
                      \A ch \in syms : f[ch] \in Range(reverse_leet_map[ch])}
        low     == lower(word)
    IN  { StripNonLower([j \in DOMAIN low |-> IF low[j] \in syms THEN f[low[j]] ELSE low[j]]) :
            f \in choices }

\* The word holds a symbol that stands for more than one letter.
Ambiguous(word) == \E ch \in MappedSymbols(word) : Len(reverse_leet_map[ch]) > 1

\* C20: deleet_word returns a member of the candidate set; a dictionary word when
\* the fragment is ambiguous and a candidate is in the dictionary; and the one
\* candidate there is when the fragment holds no ambiguous symbol.
C20_DeleetReturnsCandidate ==
    Applied("deleet_word") =>
        /\ ret.value \in ExpectedCandidates(arg)
        /\ (Ambiguous(arg) /\ ExpectedCandidates(arg) \cap spell # {}) => ret.value \in spell
        /\ ~Ambiguous(arg) => ExpectedCandidates(arg) = {ret.value}

\* <a has been deleeted to ka, the candidate the dictionary holds, in a process
\* whose sets meet ca first.
C20_Witness ==
    /\ Applied("deleet_word")
    /\ arg = <<"<", "a">>
    /\ spell = {<<"k", "a">>}
    /\ hash_order = "asc"
    /\ ret.value = <<"k", "a">>

----------------------------------------------------------------------------
(* Properties of the saturation fetch                                       *)

\* C21: a fetch_until_saturation run ends; it begins no batch after max_batches
\* of them, a batch brings at most min(batch_size, target_samples - total_fetched)
\* passwords, and the total the run returns is at most target_samples.
C21_SaturationTerminates ==
    /\ [][ pc = "saturating" =>
              LET requested == Min(sat.batch_size, sat.target_samples - sat.total_fetched)
              IN  /\ sat.batch_num <= sat.max_batches + 1
                  /\ sat.total_fetched <= sat.target_samples
                  /\ pc' = "saturating" =>
                        /\ sat.batch_num <= sat.max_batches
                        /\ sat'.batch_num = sat.batch_num + 1
                        /\ sat'.total_fetched - sat.total_fetched <= requested
                  /\ pc' = "idle" =>
                        /\ ret'.fn = "fetch_until_saturation"
                        /\ ret'.value <= sat.target_samples
                        /\ ret'.value = sat.total_fetched
                             \/ /\ sat.batch_num <= sat.max_batches
                                /\ ret'.value - sat.total_fetched <= requested ]_vars
    /\ (pc = "saturating") ~> (pc = "idle")

\* A run with target_samples = 3 and batch_size = 2 has returned 3: its second
\* batch was clipped to the one password that remained.
C21_Witness ==
    /\ pc = "idle"
    /\ ret # NoCall
    /\ ret.fn = "fetch_until_saturation"
    /\ ret.value = 3

\* new / prev < min_new_ratio for prev > 0; the ratio is 1.0 when prev = 0.
RatioBelow(new, prev, ratio) ==
    \/ prev > 0 /\ new * ratio[2] < ratio[1] * prev
    \/ prev = 0 /\ ratio[2] < ratio[1]

\* C22: a run that leaves the loop in a batch it has begun (neither max_batches
\* nor target_samples is exhausted) does so in a batch b > 1 in which both growth
\* ratios are below min_new_ratio, or in a batch b > 3 that brought no new
\* adjective and no new noun.
C22_StopsOnlySaturated ==
    [][ ( /\ pc = "saturating"
          /\ pc' = "idle"
          /\ sat.batch_num <= sat.max_batches
          /\ Min(sat.batch_size, sat.target_samples - sat.total_fetched) > 0 ) =>
            LET prev_adj  == Cardinality(adjectives)
                prev_noun == Cardinality(nouns)
                new_adjs  == Cardinality(adjectives') - prev_adj
                new_nouns == Cardinality(nouns') - prev_noun
            IN  \/ /\ sat.batch_num > 1
                   /\ RatioBelow(new_adjs, prev_adj, sat.min_new_ratio)
                   /\ RatioBelow(new_nouns, prev_noun, sat.min_new_ratio)
                \/ /\ sat.batch_num > 3
                   /\ new_adjs = 0
                   /\ new_nouns = 0 ]_vars

\* A run has gone on after its second batch, which brought a new adjective and
\* no new noun: the noun ratio alone was below the threshold.
C22_Witness ==
    /\ pc = "saturating"
    /\ sat.batch_num = 3
    /\ last # NoCall
    /\ last.initial_adj_count > 0
    /\ last.initial_noun_count > 0
    /\ Cardinality(adjectives) > last.initial_adj_count
    /\ Cardinality(nouns) = last.initial_noun_count

\* A run was stopped by a batch that brought nothing new although a growth ratio
\* was not below the threshold: the second break, which needs a batch b > 3.
C22_WitnessNoNew ==
    /\ pc = "idle"
    /\ ret # NoCall
    /\ ret.fn = "fetch_until_saturation"
    /\ ret.printed = "no_new"

\* A run was stopped by the first break.
C22_WitnessSaturation ==
    /\ pc = "idle"
    /\ ret # NoCall
    /\ ret.fn = "fetch_until_saturation"
    /\ ret.printed = "saturation"

\* C28: a call of load_components that returns False leaves the adjective set and
\* the noun set as they were.
C28_FailedLoadLeavesState ==
    [][ ( /\ pc = "idle"
          /\ pc' = "idle"
          /\ ret' = [fn |-> "load_components", value |-> FALSE] ) =>
            (adjectives' = adjectives /\ nouns' = nouns) ]_vars

----------------------------------------------------------------------------
(* Properties of the threaded fetch                                         *)

\* The requests that ended with a status other than 200 or with an exception.
FailedRequests == {i \in DOMAIN fetch.outcome : fetch.outcome[i] \in FailedOutcomes}

\* C23: when fetch_dinopass_sample returns, failed_requests is the number of
\* requests that ended with a status other than 200 or with an exception.
C23_FailuresCounted ==
    (pc = "returned" /\ fetch.fn = "fetch_dinopass_sample") =>
        fetch.failed_requests = Cardinality(FailedRequests)

\* The requests whose password is in the list returned.
Returned == {fetch.passwords[k].req : k \in DOMAIN fetch.passwords}

\* C24: in fetch_passwords_threaded every request that has run has put one item
\* on the queue and the collector takes at most count of them; the list returned
\* holds only passwords of successful requests with a non-empty body, one at
\* most for each request and count at most in all; without a timeout it holds
\* the password of every such request.
C24_CollectsSuccesses ==
    (pc = "returned" /\ fetch.fn = "fetch_passwords_threaded") =>
        /\ fetch.collected + Len(fetch.password_queue) = fetch.count
        /\ fetch.collected <= fetch.count
        /\ \A k \in DOMAIN fetch.passwords :
              /\ fetch.passwords[k].p = "password"
              /\ fetch.outcome[fetch.passwords[k].req] = "password"
        /\ Cardinality(Returned) = Len(fetch.passwords)
        /\ Len(fetch.passwords) <= fetch.count
        /\ ~fetch.timed_out =>
              Returned = {i \in DOMAIN fetch.outcome : fetch.outcome[i] = "password"}

\* A call of fetch_passwords_threaded(2) has returned one password: the other
\* request failed, and no timeout fired.
C24_Witness ==
    /\ pc = "returned"
    /\ fetch.fn = "fetch_passwords_threaded"
    /\ fetch.count = 2
    /\ ~fetch.timed_out
    /\ Len(fetch.passwords) = 1
    /\ \E i \in DOMAIN fetch.outcome : fetch.outcome[i] \in FailedOutcomes

====
